---- MODULE Spec2Model ----
(***************************************************************************)
(* A model of examples/matmul/run.cpp of gpu.cpp: the benchmark harness    *)
(* runTest (host side: tensors, kernel creation, the dispatch/wait loop),  *)
(* and the three WGSL matmul kernels kShaderMatmul1..3 as they are         *)
(* launched by runTest.                                                    *)
(*                                                                         *)
(* The specifications share the variables:                                 *)
(*   Spec        the host harness runTest and the device completing        *)
(*               dispatches asynchronously;                                *)
(*   SpecKernel  one dispatch of variant 1, 2 or 3: the workgroups of the  *)
(*               grid run in any order, each as its lanes' code dictates;  *)
(*   SpecWG      the lanes of one workgroup of variant 2 or 3 interleaved  *)
(*               step by step around the two workgroupBarrier calls        *)
(*               (SpecWGFair: scheduled fairly; SpecWGRemoved: with one    *)
(*               of the two barriers left out);                            *)
(*   SpecGenerate  calls of createMatmul1..3 rendering the shader text.    *)
(*                                                                         *)
(* Values of A and B are kept symbolic: the element A[i] is represented by *)
(* its index i, a product A[ia]*B[ib] by the pair <<ia, ib>>, and a sum of *)
(* products by the sequence of its terms in the order of accumulation.     *)
(* An element of C therefore records exactly which products were summed    *)
(* into it, for every content of A and B at once.                          *)
(***************************************************************************)
EXTENDS Integers, Sequences, FiniteSets, TLC

VARIABLES
  \* ---- inputs of runTest / template parameters of the kernels
  version,        \* int version
  M, K, N,        \* size_t M, K, N
  \* ---- host state of runTest
  pc,             \* position of the host in runTest
  tensors,        \* tensors created so far (input, weights, output)
  kernel,         \* Kernel kernel
  nCreateKernel,  \* number of createKernel calls made
  iter,           \* loop variable i of the dispatch loop
  promiseUses,    \* per promise: number of dispatchKernel calls it was passed to
  futureWaits,    \* per future: number of wait calls made on it
  fired,          \* promises whose completion signal has fired
  inflight,       \* promises of dispatches submitted and not yet completed
  dispatchLog,    \* one record per dispatchKernel call, in order
  hostLog,        \* one record per wait / resetCommandBuffer / toCPU call, in order
  elapsedUs,      \* end - start of the dispatch loop, in microseconds
  gflops,         \* the throughput runTest reports
  \* ---- calls of createMatmul1..3 (SpecGenerate)
  generated,      \* one record per call: its arguments and what it returned
  \* ---- one dispatch of a kernel (SpecKernel)
  oobMode,        \* how the build resolves an out-of-bounds buffer access
  C,              \* output buffer: index -> sequence of product terms
  wgDone,         \* workgroups of the grid that have run
  flags,          \* kinds of irregular accesses seen so far: <<kind, buffer>>
  cur,            \* the workgroup now running (variants 2, 3), or NoGroup
  phase,          \* where that workgroup stands between its barriers
  tile,           \* its loop variable: tile (variant 2), bkIdx / BK (variant 3)
  As, Bs,         \* its shared tiles: As, Bs (variant 2), tileA, tileB (variant 3)
  acc,            \* per lane: total (variant 2), threadResults (variant 3)
  writers,        \* per index of C: the lanes <<workgroup, lane>> that stored to it
  \* ---- lanes of one workgroup, interleaved (SpecWG)
  lanePc,         \* per lane: where it stands in main
  laneTile,       \* per lane: its loop variable (tile, bkIdx / BK)
  arrived,        \* per lane: number of workgroupBarrier calls it has made
  scratchA,       \* the shared tile As / tileA
  scratchB,       \* the shared tile Bs / tileB
  laneTotal,      \* per lane: total / threadResults[0]
  hazards,        \* accesses to the shared tiles made too early
  removed,        \* the workgroupBarrier call left out of the kernel, or "none"
  misread         \* lanes whose inner loop ran on a cell another lane's load
                  \* for that trip had not written, or had already replaced

harnessVars == <<pc, tensors, kernel, nCreateKernel, iter, promiseUses,
                 futureWaits, fired, inflight, dispatchLog, hostLog>>
timingVars == <<elapsedUs, gflops>>
renderVars == <<generated>>
kernelVars == <<oobMode, C, wgDone, flags, cur, phase, tile, As, Bs, acc,
                writers>>
wgVars == <<lanePc, laneTile, arrived, scratchA, scratchB, laneTotal,
            hazards, removed, misread>>
inputVars == <<version, M, K, N>>
vars == <<inputVars, harnessVars, timingVars, renderVars, kernelVars, wgVars>>

----------------------------------------------------------------------------
(* Bounds of the model *)

\* runTest is explored for version in 0..MaxVersion
MaxVersion == 4
\* runTest is explored for M, K, N in 0..MaxHostDim
MaxHostDim == 1
\* and for dispatch loops taking up to MaxElapsedHalfMs half milliseconds
MaxElapsedHalfMs == 4

(* Program constants *)

\* constexpr size_t nIter = 4
nIter == 4
\* static constexpr size_t tileSize = 16 (variant 2), Shape wgSize = {16,16,1}
tileSize == 16
\* static constexpr size_t BM = 4, BK = 4, BN = 4, TM = 1 (variant 3)
BM == 4
BK == 4
BN == 4
TM == 1

----------------------------------------------------------------------------
(* gpu.h helpers used by runTest *)

\* cdiv(n, d): ceiling division
cdiv(n, d) == (n + d - 1) \div d

\* cdiv(Shape, Shape): component-wise ceiling division
cdivShape(total, group) == [i \in 1..3 |-> cdiv(total[i], group[i])]

\* static_cast<size_t>(sqrt(n)): the integer square root
isqrt(n) == CHOOSE r \in 0..n : r * r <= n /\ (r + 1) * (r + 1) > n

----------------------------------------------------------------------------
(* The shader templates, as the sequence of their pieces: the text between *)
(* placeholders, line by line, and the placeholders {{name}} themselves.   *)

kShaderMatmul1 ==
  <<"@group(0) @binding(0) var<storage, read_write> A: array<",
     "{{precision}}", ">;",
     "@group(0) @binding(1) var<storage, read_write> B: array<",
     "{{precision}}", ">;",
     "@group(0) @binding(2) var<storage, read_write> C: array<",
     "{{precision}}", ">;", "@compute @workgroup_size(", "{{workgroupSize}}",
     ")", "fn main(",
     "@builtin(global_invocation_id) globalID : vec3<u32>) {",
     "let row = globalID.x; // Use x as row makes mapping to Shape more intuitive",
     "let col = globalID.y;", "if (row >= ", "{{M}}", " || col >= ", "{{N}}",
     ") {", "return;", "}", "var total: ", "{{precision}}", " = A[row * ",
     "{{K}}", "] * B[col * ", "{{K}}", "]; // assumes size >= 1",
     "for (var k = 1u; k < ", "{{K}}", "; k = k + 1u) {",
     "// B is stored as B^T, effectively column-major", "total += A[row * ",
     "{{K}}", " + k] * B[col * ", "{{K}}", " + k];", "}", "C[row * ",
     "{{N}}", " + col] = total;", "}" >>

kShaderMatmul2 ==
  <<"@group(0) @binding(0) var<storage, read_write> A: array<",
     "{{precision}}", ">;",
     "@group(0) @binding(1) var<storage, read_write> B: array<",
     "{{precision}}", ">;",
     "@group(0) @binding(2) var<storage, read_write> C: array<",
     "{{precision}}", ">;", "var<workgroup> As: array<", "{{precision}}",
     ", ", "{{tileSize}}", " * ", "{{tileSize}}", ">;",
     "var<workgroup> Bs: array<", "{{precision}}", ", ", "{{tileSize}}",
     " * ", "{{tileSize}}", ">;", "@compute @workgroup_size(",
     "{{workgroupSize}}", ")", "fn main(",
     "@builtin(local_invocation_index) localIdx : u32,",
     "@builtin(workgroup_id) groupID: vec3<u32>) {",
     "let loadRow = localIdx /  ", "{{tileSize}}", ";",
     "let loadCol = localIdx % ", "{{tileSize}}", ";",
     "let row = groupID.x * ", "{{tileSize}}", " + loadRow;",
     "let col = groupID.y * ", "{{tileSize}}", " + loadCol;",
     "let aRow = groupID.x * ", "{{tileSize}}", " + loadRow;",
     "let bRow = groupID.y * ", "{{tileSize}}", " + loadCol;", "var total: ",
     "{{precision}}", " = 0.0;", "for (var tile = 0u;", "tile < (", "{{K}}",
     " + ", "{{tileSize}}", " - 1) / ", "{{tileSize}}", ";",
     "tile = tile + 1u) {", "let aCol = tile * ", "{{tileSize}}",
     " + loadCol;", "let bCol = tile * ", "{{tileSize}}", " + loadRow;",
     "// We can skip masking here *iff* tileSize is evenly",
     "// divisible into M, K, and N dimensions", "As[loadRow * ",
     "{{tileSize}}", " + loadCol] =", "A[aRow * ", "{{K}}", " + aCol];",
     "// A[aRow * ", "{{K}}", " + aCol] * ", "{{precision}}", "(aRow < ",
     "{{M}}", " && aCol < ", "{{K}}", "); // masked version",
     "Bs[loadCol * ", "{{tileSize}}", " + loadRow] =", "B[bRow * ", "{{K}}",
     " + bCol];", "// B[bRow * ", "{{K}}", " + bCol] * ", "{{precision}}",
     "(bRow < ", "{{N}}", " && bCol < ", "{{K}}", "); // masked version",
     "workgroupBarrier();", "for (var k = 0u; k < ", "{{tileSize}}",
     "; k = k + 1u) {", "total += As[loadRow * ", "{{tileSize}}", " + k] *",
     "Bs[loadCol * ", "{{tileSize}}", " + k];", "}", "workgroupBarrier();",
     "}", "if (row >= ", "{{M}}", " || col >= ", "{{N}}", ") {", "return;",
     "}", "C[row * ", "{{N}}", " + col] = total;", "}" >>

kShaderMatmul3 ==
  <<"@group(0) @binding(0) var<storage, read_write> A: array<",
     "{{precision}}", ">;",
     "@group(0) @binding(1) var<storage, read_write> B: array<",
     "{{precision}}", ">;",
     "@group(0) @binding(2) var<storage, read_write> C: array<",
     "{{precision}}", ">;", "var<workgroup> tileA: array<", "{{precision}}",
     ", ", "{{BM}}", " * ", "{{BK}}", ">;", "var<workgroup> tileB: array<",
     "{{precision}}", ", ", "{{BK}}", " * ", "{{BN}}", ">;",
     "@compute @workgroup_size(", "{{workgroupSize}}", ")", "fn main(",
     "@builtin(global_invocation_id) globalID : vec3<u32>,",
     "@builtin(local_invocation_id) localID : vec3<u32>,",
     "@builtin(local_invocation_index) localIdx : u32,",
     "@builtin(workgroup_id) groupID : vec3<u32>) {",
     "var threadResults: array<", "{{precision}}", ", ", "{{TM}}", ">;",
     "let cRow: u32 = groupID.x;", "let cCol: u32 = groupID.y;",
     "// Position of the first C element computed by the thread",
     "let threadRow: u32 = localID.x / ", "{{BN}}", ";",
     "let threadCol: u32 = localID.x % ", "{{BN}}", ";",
     "// Value of A to cache in As", "let loadColA = localID.x % ", "{{BK}}",
     ";", "let loadRowA = localID.x / ", "{{BK}}", ";",
     "// Value of B to cache in Bs (B is stored as B^T)",
     "let loadColB = localID.x % ", "{{BK}}", ";",
     "let loadRowB = localID.x / ", "{{BK}}", ";",
     "// aPtr and bPtr are the starting positions of the tiles in A and B,",
     "// incremented in the bkIdx loop.",
     "// cPtr is the starting position of the tile in C which is fixed.",
     "var aPtr = cRow * ", "{{BM}}", " * ", "{{K}}", ";",
     "var bPtr = (cCol * ", "{{BN}}",
     ")  // cCol corresponds to the row in B^T", "* ", "{{K}}",
     "; // K columns per row (column-major)", "var cPtr = cRow * ", "{{BM}}",
     " * ", "{{N}}", " + cCol * ", "{{BN}}", ";",
     "for (var bkIdx = 0; bkIdx < ", "{{K}}", "; bkIdx += ", "{{BK}}", ") {",
     "tileA[loadRowA * ", "{{BK}}", " + loadColA] = A[aPtr + loadRowA * ",
     "{{K}}", " + loadColA];", "tileB[loadRowB * ", "{{BK}}",
     " + loadColB] = B[bPtr + loadRowB * ", "{{K}}", " + loadColB];",
     "aPtr += ", "{{BK}}", ";", "bPtr += ", "{{BK}}", ";",
     "workgroupBarrier();", "for (var dotIdx: u32 = 0; dotIdx < ", "{{BK}}",
     "; dotIdx = dotIdx + 1) {", "let tmp = tileB[threadCol * ", "{{BK}}",
     " + dotIdx];", "for (var resIdx: u32 = 0; resIdx < ", "{{TM}}",
     "; resIdx = resIdx + 1) {", "let mask = ", "{{precision}}",
     "(threadRow * ", "{{TM}}", " + resIdx < ", "{{BM}}", "&& threadCol < ",
     "{{BN}}", "&& threadRow * ", "{{TM}}", " + resIdx < ", "{{M}}",
     "&& cCol * ", "{{BN}}", " + threadCol < ", "{{N}}", "&& cRow * ",
     "{{BM}}", " + threadRow < ", "{{M}}", ");",
     "threadResults[resIdx] += mask * tileA[(threadRow * ", "{{TM}}",
     " + resIdx) * ", "{{BK}}", " + dotIdx] * tmp;", "}", "}",
     "workgroupBarrier();", "}", "for (var resIdx: u32 = 0; resIdx < ",
     "{{TM}}", "; resIdx = resIdx + 1) {", "C[cPtr + (threadRow * ",
     "{{TM}}", " + resIdx) * ", "{{N}}",
     " + threadCol] = threadResults[resIdx];", "}", "}" >>

Template(name) ==
  CASE name = "kShaderMatmul1" -> kShaderMatmul1
    [] name = "kShaderMatmul2" -> kShaderMatmul2
    [] OTHER -> kShaderMatmul3

\* The names that occur between double curly braces in the templates
PlaceholderNames ==
  {"workgroupSize", "precision", "M", "K", "N", "tileSize", "BM", "BK", "BN",
   "TM"}

\* The placeholder token of a name
Key(name) == "{{" \o name \o "}}"

PlaceholderTokens == {Key(name) : name \in PlaceholderNames}

----------------------------------------------------------------------------
(* createMatmul1..3: the ShaderCode returned, kept as the template's name  *)
(* with the value given for each placeholder, and the workgroup Shape;     *)
(* codeString(sc) below is the source text this stands for.                *)

\* NumType
NumTypes == {"kf32", "kf16"}

\* createMatmul2 with the pair for {{tileSize}} forgotten
createMatmul2_NoTileSize(m, k, n, workgroupSize, precision) ==
  [template |-> "kShaderMatmul2",
   subst |-> [workgroupSize |-> workgroupSize, precision |-> precision,
              M |-> m, K |-> k, N |-> n],
   workgroupSize |-> workgroupSize]

createMatmul1(m, k, n, workgroupSize, precision) ==
  [template |-> "kShaderMatmul1",
   subst |-> [workgroupSize |-> workgroupSize, precision |-> precision,
              M |-> m, K |-> k, N |-> n],
   workgroupSize |-> workgroupSize]

createMatmul2(m, k, n, workgroupSize, precision) ==
  [template |-> "kShaderMatmul2",
   subst |-> [workgroupSize |-> workgroupSize, precision |-> precision,
              M |-> m, K |-> k, N |-> n,
              tileSize |-> isqrt(workgroupSize[1])],
   workgroupSize |-> workgroupSize]

createMatmul3(m, k, n, bm, bk, bn, tm, workgroupSize, precision) ==
  [template |-> "kShaderMatmul3",
   subst |-> [workgroupSize |-> workgroupSize, precision |-> precision,
              M |-> m, K |-> k, N |-> n,
              BM |-> bm, BK |-> bk, BN |-> bn, TM |-> tm],
   workgroupSize |-> workgroupSize]

DigitChars == <<"0", "1", "2", "3", "4", "5", "6", "7", "8", "9">>

\* The decimal digits of n
RECURSIVE Decimal(_)
Decimal(n) ==
  IF n < 10 THEN DigitChars[n + 1]
  ELSE Decimal(n \div 10) \o DigitChars[(n % 10) + 1]

\* toString(size_t) keeping something of the calls made before
toStringSize_Stale(n) == Decimal(n + Len(generated))

\* toString(size_t)
toStringSize(n) == Decimal(n)

\* toString(const Shape &): the components, separated by ", "
toStringShape(shape) ==
  toStringSize(shape[1]) \o ", " \o toStringSize(shape[2]) \o ", "
    \o toStringSize(shape[3])

\* toString(NumType)
toStringNumType(precision) == IF precision = "kf32" THEN "f32" ELSE "f16"

\* The order in which the pairs are listed in the calls of replaceAll
ReplaceOrder ==
  <<"workgroupSize", "precision", "M", "K", "N", "tileSize", "BM", "BK", "BN",
    "TM">>

\* The string substituted for a placeholder
ValueString(name, value) ==
  CASE name = "workgroupSize" -> toStringShape(value)
    [] name = "precision" -> toStringNumType(value)
    [] OTHER -> toStringSize(value)

\* The list of pairs {"{{name}}", toString(value)} given to replaceAll
Replacements(sc) ==
  LET names == SelectSeq(ReplaceOrder, LAMBDA f : f \in DOMAIN sc.subst) IN
  [i \in 1..Len(names) |->
     <<Key(names[i]), ValueString(names[i], sc.subst[names[i]])>>]

\* replaceAll(str, {{from, to}, ..}): for each pair in turn, every
\* occurrence of from is replaced by to
RECURSIVE replaceAll(_, _)
replaceAll(str, pairs) ==
  IF pairs = <<>> THEN str
  ELSE replaceAll([i \in DOMAIN str |->
                     IF str[i] = Head(pairs)[1] THEN Head(pairs)[2]
                     ELSE str[i]],
                  Tail(pairs))

\* The codeString of a ShaderCode
codeString(sc) == replaceAll(Template(sc.template), Replacements(sc))

\* The placeholders left in a source text
Unresolved(code) == {code[i] : i \in DOMAIN code} \cap PlaceholderTokens

\* Kernel kernel; (default-constructed, nothing compiled)
NoKernel == [compiled |-> FALSE]

\* createKernel(ctx, code, bindings, nWorkgroups)
createKernel(code, bindings, nWorkgroups) ==
  [compiled |-> TRUE, code |-> code, bindings |-> bindings,
   nWorkgroups |-> nWorkgroups]

Bindings == <<"input", "weights", "output">>

\* The kernel runTest builds for a version: the if / else-if chain of lines
\* 263-290.  No branch is taken for any other version.
KernelFor(v, m, k, n) ==
  CASE v = 1 ->
         LET wgSize == <<16, 16, 1>> IN
         createKernel(createMatmul1(m, k, n, wgSize, "kf32"), Bindings,
                      cdivShape(<<m, n, 1>>, wgSize))
    [] v = 2 ->
         createKernel(createMatmul2(m, k, n, <<tileSize * tileSize, 1, 1>>,
                                    "kf32"),
                      Bindings,
                      cdivShape(<<m, n, 1>>, <<tileSize, tileSize, 1>>))
    [] v = 3 ->
         createKernel(createMatmul3(m, k, n, BM, BK, BN, TM,
                                    <<(BM * BN) \div TM, 1, 1>>, "kf32"),
                      Bindings,
                      <<cdiv(cdiv(m, BM), TM), cdiv(n, BN), 1>>)
    [] OTHER -> NoKernel

\* Whether the chain of lines 263-290 calls createKernel for this version
CompilesKernel(v) == v = 1 \/ v = 2 \/ v = 3

----------------------------------------------------------------------------
(* The backend behind gpu.h, as the harness sees it *)

\* A backend call (tensor allocation, kernel compilation) succeeds or fails
BackendOutcomes == {"ok", "error"}

\* A future is ready once the completion signal of its promise has fired
FutureReady(f) == f \in fired

\* Outcomes of dispatching a Kernel that was never compiled (its fields are
\* uninitialised): the process aborts, or the submission goes through
DispatchOutcomes(kern) ==
  IF kern.compiled THEN {"submitted"} ELSE {"submitted", "abort"}

----------------------------------------------------------------------------
(* runTest, host side *)

Iters == 0..(nIter - 1)

\* Mutant of PromiseFor: every iteration reuses promises[0]
PromiseFor_First(i) == 0

\* promises[i] of line 307
PromiseFor(i) == i

\* Mutant of FutureFor: iteration i waits for the dispatch before it
FutureFor_Previous(i) == IF i = 0 THEN 0 ELSE i - 1

\* futures[i] of line 308
FutureFor(i) == i

\* Mutant of AfterDispatch: the loop body does not wait
AfterDispatch_NoWait == "reset"

\* The statement that follows dispatchKernel in the loop body
AfterDispatch == "wait"

\* The statement that follows wait in the loop body
AfterWait == "reset"

\* for (int i = 0; i < nIter; i++): where the host goes with loop variable i
LoopTarget(i) == IF i < nIter THEN "dispatch" ELSE "report"

\* What the loop body does to the kernel between iterations: nothing
KernelInLoop(kern) == kern

\* Whether the loop body calls createKernel: it does not
LoopCompiles == 0

\* What the log keeps of a host call: the call, the future it names (if any),
\* and where the run stood when it was made
HostEntry(op, f) ==
  [op |-> op, iter |-> iter, future |-> f, inflight |-> inflight,
   nDispatched |-> Len(dispatchLog),
   waited |-> {w \in DOMAIN futureWaits : futureWaits[w] > 0}]

\* The values end - start can have, in microseconds: positive multiples of
\* half a millisecond
ElapsedChoices == {h * 500 : h \in 1..MaxElapsedHalfMs}

\* std::chrono::duration_cast<std::chrono::milliseconds>(end - start).count():
\* whole milliseconds, the rest cut off
DurationMs(us) == us \div 1000

\* float gflops = 2 * M * N * K / (duration.count() / 1000.0) / 1000000000.0
\*                * nIter, as the fraction num / den (den = 0: the division
\* by 0.0 gives inf or nan)
Gflops(m, n, k, ms) == [num |-> 2 * m * n * k * nIter, den |-> ms * 1000000]

\* gflops before the report
NoGflops == [num |-> 0, den |-> 0]

\* Two fractions are the same finite number
SameNumber(a, b) == a.den # 0 /\ b.den # 0 /\ a.num * b.den = b.num * a.den

HostUnused == UNCHANGED <<inputVars, renderVars, kernelVars, wgVars>>

\* Context ctx = createContext()
CreateContext ==
  /\ pc = "start"
  /\ pc' = "tensors"
  /\ UNCHANGED <<tensors, kernel, nCreateKernel, iter, promiseUses,
                 futureWaits, fired, inflight, dispatchLog, hostLog>>
  /\ HostUnused
  /\ UNCHANGED timingVars

\* Tensor input / weights / output = createTensor(ctx, Shape{..}, kf32, ..)
CreateTensor ==
  /\ pc = "tensors"
  /\ Len(tensors) < 3
  /\ \E outcome \in BackendOutcomes :
       IF outcome = "ok"
       THEN /\ tensors' = Append(tensors,
                 CASE Len(tensors) = 0 -> [name |-> "input", shape |-> <<M, K>>]
                   [] Len(tensors) = 1 -> [name |-> "weights", shape |-> <<N, K>>]
                   [] OTHER -> [name |-> "output", shape |-> <<M, N>>])
            /\ pc' = IF Len(tensors) = 2 THEN "kernel" ELSE "tensors"
       ELSE /\ tensors' = tensors
            /\ pc' = "aborted"
  /\ UNCHANGED <<kernel, nCreateKernel, iter, promiseUses, futureWaits,
                 fired, inflight, dispatchLog, hostLog>>
  /\ HostUnused
  /\ UNCHANGED timingVars

\* Kernel kernel; if (version == 1) {..} else if (version == 2) {..}
\* else if (version == 3) {..}
InitKernel ==
  /\ pc = "kernel"
  /\ \E outcome \in (IF CompilesKernel(version) THEN BackendOutcomes ELSE {"ok"}) :
       IF outcome = "ok"
       THEN /\ kernel' = KernelFor(version, M, K, N)
            /\ pc' = "promises"
       ELSE /\ kernel' = kernel
            /\ pc' = "aborted"
  /\ nCreateKernel' = nCreateKernel + (IF CompilesKernel(version) THEN 1 ELSE 0)
  /\ UNCHANGED <<tensors, iter, promiseUses, futureWaits, fired, inflight,
                 dispatchLog, hostLog>>
  /\ HostUnused
  /\ UNCHANGED timingVars

\* std::array<std::promise<void>, nIter> promises; futures[i] = promises[i].get_future()
AllocPromises ==
  /\ pc = "promises"
  /\ promiseUses' = [p \in Iters |-> 0]
  /\ futureWaits' = [f \in Iters |-> 0]
  /\ iter' = 0
  /\ pc' = LoopTarget(0)
  /\ UNCHANGED <<tensors, kernel, nCreateKernel, fired, inflight, dispatchLog,
                 hostLog>>
  /\ HostUnused
  /\ UNCHANGED timingVars

\* dispatchKernel(ctx, kernel, promises[i])
Dispatch ==
  /\ pc = "dispatch"
  /\ LET p == PromiseFor(iter) IN
     \E outcome \in DispatchOutcomes(kernel) :
       /\ dispatchLog' = Append(dispatchLog,
            [iter |-> iter, promise |-> p, kernel |-> kernel,
             nCompiled |-> nCreateKernel, tensors |-> Len(tensors),
             firedBefore |-> fired, inflightBefore |-> inflight,
             waitedBefore |-> {f \in Iters : futureWaits[f] > 0}])
       /\ promiseUses' = [promiseUses EXCEPT ![p] = @ + 1]
       /\ IF outcome = "submitted"
          THEN /\ inflight' = inflight \cup {p}
               /\ pc' = AfterDispatch
          ELSE /\ inflight' = inflight
               /\ pc' = "aborted"
  /\ UNCHANGED <<tensors, kernel, nCreateKernel, iter, futureWaits, fired,
                 hostLog>>
  /\ HostUnused
  /\ UNCHANGED timingVars

\* The device finishes a submitted dispatch and fires its completion signal
DeviceComplete ==
  /\ \E p \in inflight :
       /\ inflight' = inflight \ {p}
       /\ fired' = fired \cup {p}
  /\ UNCHANGED <<pc, tensors, kernel, nCreateKernel, iter, promiseUses,
                 futureWaits, dispatchLog, hostLog>>
  /\ HostUnused
  /\ UNCHANGED timingVars

\* wait(ctx, futures[i]): returns once the future is ready
Wait ==
  /\ pc = "wait"
  /\ LET f == FutureFor(iter) IN
       /\ FutureReady(f)
       /\ futureWaits' = [futureWaits EXCEPT ![f] = @ + 1]
       /\ hostLog' = Append(hostLog, HostEntry("wait", f))
  /\ pc' = AfterWait
  /\ UNCHANGED <<tensors, kernel, nCreateKernel, iter, promiseUses, fired,
                 inflight, dispatchLog>>
  /\ HostUnused
  /\ UNCHANGED timingVars

\* resetCommandBuffer(ctx.device, kernel); i++
ResetCommandBuffer ==
  /\ pc = "reset"
  /\ hostLog' = Append(hostLog, HostEntry("reset", -1))
  /\ kernel' = KernelInLoop(kernel)
  /\ nCreateKernel' = nCreateKernel + LoopCompiles
  /\ iter' = iter + 1
  /\ pc' = LoopTarget(iter + 1)
  /\ UNCHANGED <<tensors, promiseUses, futureWaits, fired, inflight,
                 dispatchLog>>
  /\ HostUnused
  /\ UNCHANGED timingVars

\* end = now(); duration; gflops; LOG(..)
Report ==
  /\ pc = "report"
  /\ \E us \in ElapsedChoices :
       /\ elapsedUs' = us
       /\ gflops' = Gflops(M, N, K, DurationMs(us))
  /\ pc' = "toCPU"
  /\ UNCHANGED <<tensors, kernel, nCreateKernel, iter, promiseUses,
                 futureWaits, fired, inflight, dispatchLog, hostLog>>
  /\ HostUnused

\* toCPU(ctx, output, outputPtr.get(), M * N * sizeof(float))
ToCPU ==
  /\ pc = "toCPU"
  /\ hostLog' = Append(hostLog, HostEntry("toCPU", -1))
  /\ pc' = "done"
  /\ UNCHANGED <<tensors, kernel, nCreateKernel, iter, promiseUses,
                 futureWaits, fired, inflight, dispatchLog>>
  /\ HostUnused
  /\ UNCHANGED timingVars

KernelIdle ==
  /\ oobMode = "none"
  /\ C = <<>>
  /\ wgDone = {}
  /\ flags = {}
  /\ cur = <<>>
  /\ phase = "idle"
  /\ tile = 0
  /\ As = <<>>
  /\ Bs = <<>>
  /\ acc = <<>>
  /\ writers = <<>>

WGIdle ==
  /\ lanePc = <<>>
  /\ laneTile = <<>>
  /\ arrived = <<>>
  /\ scratchA = <<>>
  /\ scratchB = <<>>
  /\ laneTotal = <<>>
  /\ hazards = {}
  /\ removed = "none"
  /\ misread = {}

\* Nothing reported, nothing generated
ReportIdle ==
  /\ elapsedUs = 0
  /\ gflops = NoGflops
  /\ generated = <<>>

HarnessIdle ==
  /\ pc = "idle"
  /\ tensors = <<>>
  /\ kernel = NoKernel
  /\ nCreateKernel = 0
  /\ iter = 0
  /\ promiseUses = <<>>
  /\ futureWaits = <<>>
  /\ fired = {}
  /\ inflight = {}
  /\ dispatchLog = <<>>
  /\ hostLog = <<>>
  /\ ReportIdle

\* runTest(version, M, K, N, ..) is entered
Init ==
  /\ version \in 0..MaxVersion
  /\ M \in 0..MaxHostDim
  /\ K \in 0..MaxHostDim
  /\ N \in 0..MaxHostDim
  /\ pc = "start"
  /\ tensors = <<>>
  /\ kernel = NoKernel
  /\ nCreateKernel = 0
  /\ iter = 0
  /\ promiseUses = <<>>
  /\ futureWaits = <<>>
  /\ fired = {}
  /\ inflight = {}
  /\ dispatchLog = <<>>
  /\ hostLog = <<>>
  /\ ReportIdle
  /\ KernelIdle
  /\ WGIdle

Next ==
  \/ CreateContext
  \/ CreateTensor
  \/ InitKernel
  \/ AllocPromises
  \/ Dispatch
  \/ DeviceComplete
  \/ Wait
  \/ ResetCommandBuffer
  \/ Report
  \/ ToCPU

Spec == Init /\ [][Next]_vars

----------------------------------------------------------------------------
(* Claims about the harness, checked under Spec *)

\* C1: in the dispatch loop no iteration overlaps another: at most one
\* dispatch is outstanding at any time, and dispatchKernel of iteration i+1
\* is issued only after the completion signal of iteration i has fired and
\* the wait on futures[i] has returned.
C1_SequentialDispatch ==
  /\ Cardinality(inflight) <= 1
  /\ \A d \in 1..Len(dispatchLog) :
       LET e == dispatchLog[d] IN
         /\ e.inflightBefore = {}
         /\ d > 1 =>
              /\ e.iter = dispatchLog[d - 1].iter + 1
              /\ dispatchLog[d - 1].promise \in e.firedBefore
              /\ dispatchLog[d - 1].iter \in e.waitedBefore

\* C1 witness: the last iteration's dispatch is outstanding, the three
\* before it have completed and been waited for.
C1_Witness ==
  /\ Len(dispatchLog) = nIter
  /\ kernel.compiled
  /\ inflight = {nIter - 1}
  /\ fired = 0..(nIter - 2)

\* C2: every resetCommandBuffer call and the toCPU copy of the output happen
\* only after the wait on the completion signal paired with the most recent
\* dispatch has returned, so no dispatch is in flight at that point.
C2_NoReuseInFlight ==
  \A h \in 1..Len(hostLog) :
    LET e == hostLog[h] IN
      (e.op \in {"reset", "toCPU"} /\ e.nDispatched > 0) =>
        /\ e.inflight = {}
        /\ dispatchLog[e.nDispatched].promise \in e.waited

\* C2 witness: the run is over; every reset and the copy have been made.
C2_Witness ==
  /\ pc = "done"
  /\ kernel.compiled
  /\ Cardinality({h \in 1..Len(hostLog) : hostLog[h].op = "reset"}) = nIter
  /\ hostLog[Len(hostLog)].op = "toCPU"

\* C7 (the claim as stated): for every version passed to runTest, createKernel
\* has been called exactly once before the first dispatch and every
\* dispatchKernel call is handed that compiled kernel.
C7_ExactlyOneKernel ==
  (M >= 1 /\ K >= 1 /\ N >= 1) =>
    \A d \in 1..Len(dispatchLog) :
      LET e == dispatchLog[d] IN
        /\ e.nCompiled = 1
        /\ e.kernel.compiled
        /\ e.kernel = dispatchLog[1].kernel

\* C8 (the claim as stated): a configuration with M, K or N equal to 0 is
\* rejected before any kernel is compiled: no createKernel call and no
\* dispatch happens for it.
C8_RejectsZeroDim ==
  (version \in 1..3 /\ (M = 0 \/ K = 0 \/ N = 0)) =>
    /\ nCreateKernel = 0
    /\ dispatchLog = <<>>

\* C9: every promise is passed to at most one dispatchKernel call and every
\* future to at most one wait; the wait of iteration i is on the future
\* paired with the promise dispatched in iteration i; and when the run is
\* over each pair has been used exactly once.
C9_SingleUseTickets ==
  /\ \A p \in DOMAIN promiseUses : promiseUses[p] <= 1
  /\ \A f \in DOMAIN futureWaits : futureWaits[f] <= 1
  /\ \A d \in 1..Len(dispatchLog) : dispatchLog[d].promise = dispatchLog[d].iter
  /\ \A h \in 1..Len(hostLog) :
       LET e == hostLog[h] IN
         e.op = "wait" =>
           /\ e.nDispatched > 0
           /\ e.future = dispatchLog[e.nDispatched].promise
           /\ e.iter = dispatchLog[e.nDispatched].iter
  /\ pc = "done" =>
       \A i \in Iters : promiseUses[i] = 1 /\ futureWaits[i] = 1

\* C9 witness: the run is over and all nIter pairs have been used.
C9_Witness ==
  /\ pc = "done"
  /\ Len(dispatchLog) = nIter
  /\ \A i \in Iters : promiseUses[i] = 1 /\ futureWaits[i] = 1 /\ i \in fired

\* The phase of a run: Unconfigured (0) until a kernel is compiled,
\* Configured (1) until the first dispatch, Running (2) while the loop
\* dispatches, Completed (3) once the loop is over.
PhaseRank ==
  IF pc \in {"report", "toCPU", "done"} THEN 3
  ELSE IF Len(dispatchLog) > 0 THEN 2
  ELSE IF kernel.compiled THEN 1
  ELSE 0

\* One step of a run that respects the lifecycle
LifecycleStep ==
  /\ PhaseRank' \in {PhaseRank, PhaseRank + 1}
  /\ Len(dispatchLog') > 0 =>
       /\ Len(tensors') = 3
       /\ tensors' = tensors
       /\ nCreateKernel' = nCreateKernel
  /\ Len(dispatchLog) > 0 => kernel' = kernel

\* C10 (the claim as stated): a run moves through Unconfigured, Configured,
\* Running, Completed in that order and never back; tensor creation and
\* kernel compilation precede the first dispatch; and from the first
\* dispatch on the kernel (source, bindings, workgroup shape, grid) does
\* not change.
C10_Lifecycle ==
  [][(M >= 1 /\ K >= 1 /\ N >= 1) => LifecycleStep]_vars

\* C7, C10 restricted to the versions runTest knows (1, 2, 3): there the
\* kernel is compiled exactly once before the first dispatch and the phases
\* follow in order.
C7_KnownVersions == version \in 1..3 => C7_ExactlyOneKernel

C10_KnownVersions == [][(version \in 1..3) => LifecycleStep]_vars

\* C14 (the claim as stated): the throughput runTest reports equals
\* 2*M*N*K*n / elapsedSeconds / 1e9, n = nIter dispatches and elapsedSeconds
\* the wall-clock time of the dispatch loop, for every M, K, N >= 1 and every
\* elapsed time.  Checked under Spec.
C14_Throughput ==
  (pc \in {"toCPU", "done"} /\ M >= 1 /\ K >= 1 /\ N >= 1) =>
    SameNumber(gflops, [num |-> 2 * M * N * K * nIter, den |-> elapsedUs * 1000])

\* C14, for loops that take a whole number of milliseconds: the report is
\* the formula's value.
C14_WholeMilliseconds ==
  (pc \in {"toCPU", "done"} /\ M >= 1 /\ K >= 1 /\ N >= 1
     /\ elapsedUs % 1000 = 0) =>
    SameNumber(gflops, [num |-> 2 * M * N * K * nIter, den |-> elapsedUs * 1000])

----------------------------------------------------------------------------
(* Storage buffers and symbolic values *)

\* The value 0.0: the initial total, a masked-out product, and what a
\* zero-initialised workgroup or output cell holds
Zero == -1

\* Number of elements of the buffers bound as A (input, M x K), B (weights,
\* N x K) and C (output, M x N)
SizeOf(buf) ==
  CASE buf = "A" -> M * K
    [] buf = "B" -> N * K
    [] OTHER -> M * N

\* What the build may do with an out-of-bounds access to a storage buffer:
\* "skip" (a load yields 0, a store is dropped) or "clamp" (the access goes
\* to the last element)
OobModes == {"skip", "clamp"}

\* The element an access at index idx of a buffer of size elements reaches
Resolve(size, idx) ==
  IF idx < size THEN idx
  ELSE IF oobMode = "clamp" THEN size - 1
  ELSE Zero

\* A product that is not 0 whatever A and B hold
NonZero(t) == t[1] # Zero /\ t[2] # Zero

\* The sum of a sequence of products <<a, b>>: its terms that are not 0
Sum(terms) == SelectSeq(terms, NonZero)

\* The irregular accesses among accs, a set of <<buffer, index, stray,
\* column>>: "stray" (an element reached by a lane whose output element is
\* outside C), "oob" (index beyond the buffer), "wrap" (column index >= K,
\* landing in another row of the buffer)
FlagsOf(accs) ==
  {<<"stray", a[1]>> : a \in {x \in accs : x[3] /\ x[2] < SizeOf(x[1])}}
    \cup {<<"oob", a[1]>> : a \in {x \in accs : x[2] >= SizeOf(x[1])}}
    \cup {<<"wrap", a[1]>> :
            a \in {x \in accs : x[4] >= K /\ x[2] < SizeOf(x[1])}}

\* The buffers a set of stores <<index, value>> of concurrent lanes can
\* leave: where several lanes store different values to one index, any of
\* them may be the last
RECURSIVE Outcomes(_, _, _)
Outcomes(buf, stores, idxs) ==
  IF idxs = {} THEN {buf}
  ELSE LET i == CHOOSE x \in idxs : TRUE IN
       UNION {Outcomes([buf EXCEPT ![i] = w[2]], stores, idxs \ {i}) :
                w \in {x \in stores : x[1] = i}}

\* The kernel's stores to C, each resolved to the element it reaches
ResolvedStores(stores) ==
  {<<Resolve(SizeOf("C"), w[1]), w[2]>> : w \in stores}

\* The contents C can have after the stores of one workgroup: an index
\* stored to with one value holds it, an index stored to with several holds
\* any of them
StoreOutcomes(buf, stores) ==
  LET rs == {w \in ResolvedStores(stores) : w[1] # Zero}
      vals(i) == {w[2] : w \in {x \in rs : x[1] = i}}
      contested == {i \in {w[1] : w \in rs} : Cardinality(vals(i)) > 1}
      settled == [i \in DOMAIN buf |->
                    IF vals(i) = {} \/ i \in contested THEN buf[i]
                    ELSE CHOOSE v \in vals(i) : TRUE]
  IN Outcomes(settled, rs, contested)

\* A shared tile after each lane's store <<cell, element>> of one load phase
Scatter(old, stores) ==
  [c \in DOMAIN old |->
     LET ws == {w \in stores : w[1] = c} IN
     IF ws = {} THEN old[c] ELSE (CHOOSE w \in ws : TRUE)[2]]

\* The dispatch grid runTest gives createKernel for this version
Grid ==
  LET n == KernelFor(version, M, K, N).nWorkgroups IN
  {<<gx, gy>> : gx \in 0..(n[1] - 1), gy \in 0..(n[2] - 1)}

NoGroup == <<>>

----------------------------------------------------------------------------
(* kShaderMatmul1: lane globalID = <<row, col>> *)

\* The lanes of workgroup g: global_invocation_id over a 16 x 16 workgroup
Lanes1(g) ==
  {<<g[1] * 16 + lx, g[2] * 16 + ly>> : lx \in 0..15, ly \in 0..15}

\* Mutant of Lane1Returns: the guard forgets the column
Lane1Returns_RowOnly(gid) == gid[1] >= M

\* if (row >= M || col >= N) { return; }
Lane1Returns(gid) == gid[1] >= M \/ gid[2] >= N

\* The products the lane sums: A[row*K] * B[col*K], then k = 1 .. K-1
Lane1Products(gid) ==
  << <<gid[1] * K, gid[2] * K>> >>
    \o [k \in 1..(K - 1) |-> <<gid[1] * K + k, gid[2] * K + k>>]

\* total, with each load resolved
Lane1Total(gid) ==
  Sum([i \in 1..Len(Lane1Products(gid)) |->
         <<Resolve(SizeOf("A"), Lane1Products(gid)[i][1]),
           Resolve(SizeOf("B"), Lane1Products(gid)[i][2])>>])

\* C[row * N + col] = total
Lane1Stores(gid) ==
  IF Lane1Returns(gid) THEN {}
  ELSE {<<gid[1] * N + gid[2], Lane1Total(gid)>>}

\* Every access of the lane: <<buffer, index, stray, column>>
Lane1Accesses(gid) ==
  IF Lane1Returns(gid) THEN {}
  ELSE LET stray == gid[1] >= M \/ gid[2] >= N IN
       {<<"A", Lane1Products(gid)[i][1], stray, 0>> :
          i \in 1..Len(Lane1Products(gid))}
         \cup {<<"B", Lane1Products(gid)[i][2], stray, 0>> :
                 i \in 1..Len(Lane1Products(gid))}
         \cup {<<"C", gid[1] * N + gid[2], stray, 0>>}

----------------------------------------------------------------------------
(* kShaderMatmul2: lane localIdx = l of workgroup g, tileSize = T *)

Lanes2(T) == 0..(T * T - 1)

\* let loadRow = localIdx / tileSize; let loadCol = localIdx % tileSize
V2loadRow(T, l) == l \div T
V2loadCol(T, l) == l % T

\* let row = groupID.x * tileSize + loadRow (also aRow)
V2row(T, g, l) == g[1] * T + V2loadRow(T, l)

\* let col = groupID.y * tileSize + loadCol (also bRow)
V2col(T, g, l) == g[2] * T + V2loadCol(T, l)

\* tile < (K + tileSize - 1) / tileSize
V2NumTiles(T) == (K + T - 1) \div T

\* let aCol = tile * tileSize + loadCol
V2aCol(T, t, l) == t * T + V2loadCol(T, l)

\* bCol taken from loadCol instead of loadRow
V2bCol_LoadCol(T, t, l) == t * T + V2loadCol(T, l)

\* let bCol = tile * tileSize + loadRow
V2bCol(T, t, l) == t * T + V2loadRow(T, l)

\* The store to As with loadCol left out of the cell index
V2StoreAs_RowCell(T, g, t, l) ==
  <<V2loadRow(T, l) * T, V2row(T, g, l) * K + V2aCol(T, t, l)>>

\* As[loadRow * tileSize + loadCol] = A[aRow * K + aCol]: <<cell, index>>
V2StoreAs(T, g, t, l) ==
  <<V2loadRow(T, l) * T + V2loadCol(T, l),
    V2row(T, g, l) * K + V2aCol(T, t, l)>>

\* Bs[loadCol * tileSize + loadRow] = B[bRow * K + bCol]: <<cell, index>>
V2StoreBs(T, g, t, l) ==
  <<V2loadCol(T, l) * T + V2loadRow(T, l),
    V2col(T, g, l) * K + V2bCol(T, t, l)>>

\* The cells the lane reads at step k: As[loadRow * tileSize + k] and
\* Bs[loadCol * tileSize + k]
V2ReadAs(T, l, k) == V2loadRow(T, l) * T + k
V2ReadBs(T, l, k) == V2loadCol(T, l) * T + k

\* for (k = 0; k < tileSize; k++) total += As[..] * Bs[..]
V2Products(T, l, as, bs) ==
  [k1 \in 1..T |-> <<as[V2ReadAs(T, l, k1 - 1)], bs[V2ReadBs(T, l, k1 - 1)]>>]

\* if (row >= M || col >= N) { return; }
V2Returns(T, g, l) == V2row(T, g, l) >= M \/ V2col(T, g, l) >= N

\* C[row * N + col] = total
V2Stores(T, g, l, total) ==
  IF V2Returns(T, g, l) THEN {}
  ELSE {<<V2row(T, g, l) * N + V2col(T, g, l), total>>}

\* The loads of the lane for one tile: <<buffer, index, stray, column>>
V2LoadAccesses(T, g, t, l) ==
  {<<"A", V2StoreAs(T, g, t, l)[2], FALSE, V2aCol(T, t, l)>>,
   <<"B", V2StoreBs(T, g, t, l)[2], FALSE, V2bCol(T, t, l)>>}

\* The store of the lane, as an access
V2StoreAccesses(T, g, l) ==
  {<<"C", w[1], V2row(T, g, l) >= M \/ V2col(T, g, l) >= N, 0>> :
     w \in V2Stores(T, g, l, <<>>)}

----------------------------------------------------------------------------
(* kShaderMatmul3: lane localID.x = l of workgroup g = <<cRow, cCol>>,     *)
(* p = [BM, BK, BN, TM]                                                    *)

Lanes3(p) == 0..((p.BM * p.BN) \div p.TM - 1)

\* let threadRow = localID.x / BN; let threadCol = localID.x % BN
V3threadRow(p, l) == l \div p.BN
V3threadCol(p, l) == l % p.BN

\* let loadColA = localID.x % BK; let loadRowA = localID.x / BK (same for B)
V3loadCol(p, l) == l % p.BK
V3loadRow(p, l) == l \div p.BK

\* aPtr = cRow * BM * K, advanced by BK per chunk
V3aPtr(p, g, c) == g[1] * p.BM * K + c * p.BK

\* bPtr = (cCol * BN) * K, advanced by BK per chunk
V3bPtr(p, g, c) == g[2] * p.BN * K + c * p.BK

\* cPtr = cRow * BM * N + cCol * BN
V3cPtr(p, g) == g[1] * p.BM * N + g[2] * p.BN

\* for (bkIdx = 0; bkIdx < K; bkIdx += BK): the number of chunks
V3NumChunks(p) == (K + p.BK - 1) \div p.BK

\* tileA[loadRowA * BK + loadColA] = A[aPtr + loadRowA * K + loadColA]
V3StoreTileA(p, g, c, l) ==
  <<V3loadRow(p, l) * p.BK + V3loadCol(p, l),
    V3aPtr(p, g, c) + V3loadRow(p, l) * K + V3loadCol(p, l)>>

\* tileB[loadRowB * BK + loadColB] = B[bPtr + loadRowB * K + loadColB]
V3StoreTileB(p, g, c, l) ==
  <<V3loadRow(p, l) * p.BK + V3loadCol(p, l),
    V3bPtr(p, g, c) + V3loadRow(p, l) * K + V3loadCol(p, l)>>

\* The cells the lane reads at step dotIdx for accumulator resIdx
V3ReadTileA(p, l, resIdx, dotIdx) ==
  (V3threadRow(p, l) * p.TM + resIdx) * p.BK + dotIdx
V3ReadTileB(p, l, dotIdx) == V3threadCol(p, l) * p.BK + dotIdx

\* let mask = f32(threadRow * TM + resIdx < BM && threadCol < BN
\*   && threadRow * TM + resIdx < M && cCol * BN + threadCol < N
\*   && cRow * BM + threadRow < M)
V3Mask(p, g, l, resIdx) ==
  /\ V3threadRow(p, l) * p.TM + resIdx < p.BM
  /\ V3threadCol(p, l) < p.BN
  /\ V3threadRow(p, l) * p.TM + resIdx < M
  /\ g[2] * p.BN + V3threadCol(p, l) < N
  /\ g[1] * p.BM + V3threadRow(p, l) < M

\* threadResults[resIdx] += mask * tileA[..] * tmp, for dotIdx = 0 .. BK-1
V3Products(p, g, l, resIdx, ta, tb) ==
  [d1 \in 1..p.BK |->
     IF V3Mask(p, g, l, resIdx)
     THEN <<ta[V3ReadTileA(p, l, resIdx, d1 - 1)],
            tb[V3ReadTileB(p, l, d1 - 1)]>>
     ELSE <<Zero, Zero>>]

\* C[cPtr + (threadRow * TM + resIdx) * N + threadCol]: the index stored to
V3StoreIndex(p, g, l, resIdx) ==
  V3cPtr(p, g) + (V3threadRow(p, l) * p.TM + resIdx) * N + V3threadCol(p, l)

\* The row and column of C the lane's accumulator resIdx is for
V3targetRow(p, g, l, resIdx) == g[1] * p.BM + V3threadRow(p, l) * p.TM + resIdx
V3targetCol(p, g, l) == g[2] * p.BN + V3threadCol(p, l)

\* for (resIdx = 0; resIdx < TM; resIdx++) C[..] = threadResults[resIdx]
V3Stores(p, g, l, results) ==
  {<<V3StoreIndex(p, g, l, r), results[r]>> : r \in 0..(p.TM - 1)}

\* The loads of the lane for one chunk: <<buffer, index, stray, column>>
V3LoadAccesses(p, g, c, l) ==
  {<<"A", V3StoreTileA(p, g, c, l)[2], FALSE, c * p.BK + V3loadCol(p, l)>>,
   <<"B", V3StoreTileB(p, g, c, l)[2], FALSE, c * p.BK + V3loadCol(p, l)>>}

\* The stores of the lane, as accesses
V3StoreAccesses(p, g, l) ==
  {<<"C", V3StoreIndex(p, g, l, r),
     V3targetRow(p, g, l, r) >= M \/ V3targetCol(p, g, l) >= N, 0>> :
     r \in 0..(p.TM - 1)}

----------------------------------------------------------------------------
(* One dispatch of the kernel of a version: SpecKernel *)

\* Bounds: variant 1 runs for M, N in 1..MaxSmallDim and one past a
\* workgroup, K in 1..MaxK1; variant 3 for M, K, N in 1..MaxDim3
MaxSmallDim == 2
MaxK1 == 3
MaxDim3 == 5

\* The <<M, K, N>> a version is run for
KernelDims(v) ==
  CASE v = 1 ->
         {<<m, k, n>> : m \in (1..MaxSmallDim) \cup {tileSize + 1},
                        k \in 1..MaxK1,
                        n \in (1..MaxSmallDim) \cup {tileSize + 1}}
    [] v = 2 ->
         {<<m, k, n>> : m \in {1, tileSize, tileSize + 1},
                        k \in {1, tileSize, tileSize + 1},
                        n \in {1, tileSize, tileSize + 1}}
           \cup {<<tileSize, 2 * tileSize, tileSize>>,
                 <<2 * tileSize, tileSize, tileSize>>}
    [] OTHER ->
         {<<m, k, n>> : m \in 1..MaxDim3, k \in 1..MaxDim3, n \in 1..MaxDim3}

\* The template parameters of the compiled kernel
Params == KernelFor(version, M, K, N).code.subst

\* The shared tiles of a workgroup, zero-initialised
TileA0 ==
  IF version = 2 THEN [c \in 0..(Params.tileSize * Params.tileSize - 1) |-> Zero]
  ELSE [c \in 0..(Params.BM * Params.BK - 1) |-> Zero]
TileB0 ==
  IF version = 2 THEN [c \in 0..(Params.tileSize * Params.tileSize - 1) |-> Zero]
  ELSE [c \in 0..(Params.BK * Params.BN - 1) |-> Zero]

\* The lanes of a workgroup of variant 2 or 3
WGLanes == IF version = 2 THEN Lanes2(Params.tileSize) ELSE Lanes3(Params)

\* Number of trips of the loop over K
NumTiles == IF version = 2 THEN V2NumTiles(Params.tileSize) ELSE V3NumChunks(Params)

\* The lanes' zero-initialised accumulators: total, threadResults
Acc0 ==
  IF version = 2 THEN [l \in WGLanes |-> <<>>]
  ELSE [l \in WGLanes |-> [r \in 0..(Params.TM - 1) |-> <<>>]]

\* The stores <<cell, index>> of all lanes into the two tiles for tile t
TileStoresA(g, t) ==
  IF version = 2 THEN {V2StoreAs(Params.tileSize, g, t, l) : l \in WGLanes}
  ELSE {V3StoreTileA(Params, g, t, l) : l \in WGLanes}
TileStoresB(g, t) ==
  IF version = 2 THEN {V2StoreBs(Params.tileSize, g, t, l) : l \in WGLanes}
  ELSE {V3StoreTileB(Params, g, t, l) : l \in WGLanes}

\* The loads of all lanes for tile t
LoadAccesses(g, t) ==
  IF version = 2
  THEN UNION {V2LoadAccesses(Params.tileSize, g, t, l) : l \in WGLanes}
  ELSE UNION {V3LoadAccesses(Params, g, t, l) : l \in WGLanes}

\* The accumulators after the inner loop over one tile
Accumulate(g, a, ta, tb) ==
  IF version = 2
  THEN [l \in WGLanes |->
          a[l] \o Sum(V2Products(Params.tileSize, l, ta, tb))]
  ELSE [l \in WGLanes |->
          [r \in 0..(Params.TM - 1) |->
             a[l][r] \o Sum(V3Products(Params, g, l, r, ta, tb))]]

\* The stores to C of all lanes of the workgroup
AllStores(g, a) ==
  IF version = 2
  THEN UNION {V2Stores(Params.tileSize, g, l, a[l]) : l \in WGLanes}
  ELSE UNION {V3Stores(Params, g, l, a[l]) : l \in WGLanes}

StoreAccesses(g) ==
  IF version = 2
  THEN UNION {V2StoreAccesses(Params.tileSize, g, l) : l \in WGLanes}
  ELSE UNION {V3StoreAccesses(Params, g, l) : l \in WGLanes}

\* The stores to C of lane l of workgroup g
StoresOfLane(g, a, l) ==
  IF version = 2 THEN V2Stores(Params.tileSize, g, l, a[l])
  ELSE V3Stores(Params, g, l, a[l])

\* The history of stores after the lanes in who have stored: a lane is
\* recorded at each index of C its statements name, and a store past the end
\* of C is recorded nowhere
Recorded(w, named) ==
  [i \in DOMAIN w |-> w[i] \cup {p[2] : p \in {q \in named : q[1] = i}}]

\* The indexes of C the lanes of workgroup g name in their stores, each with
\* its lane: <<index, lane>>
Named1(g) ==
  UNION {{<<st[1], gid>> : st \in Lane1Stores(gid)} : gid \in Lanes1(g)}
Named(g, a) ==
  UNION {{<<st[1], <<g, l>>>> : st \in StoresOfLane(g, a, l)} : l \in WGLanes}

KernelUnused ==
  UNCHANGED <<inputVars, harnessVars, timingVars, renderVars, wgVars, oobMode>>

\* A workgroup of variant 1 runs: its lanes are independent of each other
RunWorkgroup1(g) ==
  /\ version = 1
  /\ g \in Grid \ wgDone
  /\ C' \in StoreOutcomes(C, UNION {Lane1Stores(l) : l \in Lanes1(g)})
  /\ flags' = flags \cup FlagsOf(UNION {Lane1Accesses(l) : l \in Lanes1(g)})
  /\ wgDone' = wgDone \cup {g}
  /\ writers' = Recorded(writers, Named1(g))
  /\ UNCHANGED <<cur, phase, tile, As, Bs, acc>>
  /\ KernelUnused

\* A workgroup of variant 2 or 3 starts: its lanes enter main
BeginWorkgroup(g) ==
  /\ version \in {2, 3}
  /\ cur = NoGroup
  /\ g \in Grid \ wgDone
  /\ cur' = g
  /\ tile' = 0
  /\ As' = TileA0
  /\ Bs' = TileB0
  /\ acc' = Acc0
  /\ phase' = IF NumTiles > 0 THEN "load" ELSE "store"
  /\ UNCHANGED <<C, wgDone, flags, writers>>
  /\ KernelUnused

\* Every lane stores its cell of both tiles and arrives at the first barrier
LoadTile ==
  /\ phase = "load"
  /\ As' = Scatter(As, {<<w[1], Resolve(SizeOf("A"), w[2])>> :
                          w \in TileStoresA(cur, tile)})
  /\ Bs' = Scatter(Bs, {<<w[1], Resolve(SizeOf("B"), w[2])>> :
                          w \in TileStoresB(cur, tile)})
  /\ flags' = flags \cup FlagsOf(LoadAccesses(cur, tile))
  /\ phase' = "compute"
  /\ UNCHANGED <<C, wgDone, cur, tile, acc, writers>>
  /\ KernelUnused

\* Every lane runs its inner loop over the tiles and arrives at the second
\* barrier; the loop over K goes on or ends
ComputeTile ==
  /\ phase = "compute"
  /\ acc' = Accumulate(cur, acc, As, Bs)
  /\ tile' = tile + 1
  /\ phase' = IF tile + 1 < NumTiles THEN "load" ELSE "store"
  /\ UNCHANGED <<C, wgDone, flags, cur, As, Bs, writers>>
  /\ KernelUnused

\* Every lane stores its result (or returns) and the workgroup is over
StoreResults ==
  /\ phase = "store"
  /\ C' \in StoreOutcomes(C, AllStores(cur, acc))
  /\ flags' = flags \cup FlagsOf(StoreAccesses(cur))
  /\ wgDone' = wgDone \cup {cur}
  /\ cur' = NoGroup
  /\ phase' = "idle"
  /\ tile' = 0
  /\ As' = <<>>
  /\ Bs' = <<>>
  /\ acc' = <<>>
  /\ writers' = Recorded(writers, Named(cur, acc))
  /\ KernelUnused

\* A dispatch of the kernel of version v is submitted: C is the output
\* tensor as createTensor left it
InitKernelRun(v) ==
  /\ version = v
  /\ \E d \in KernelDims(v) : M = d[1] /\ K = d[2] /\ N = d[3]
  /\ oobMode \in OobModes
  /\ C = [i \in 0..(M * N - 1) |-> <<>>]
  /\ wgDone = {}
  /\ flags = {}
  /\ cur = NoGroup
  /\ phase = "idle"
  /\ tile = 0
  /\ As = <<>>
  /\ Bs = <<>>
  /\ acc = <<>>
  /\ writers = [i \in 0..(M * N - 1) |-> {}]
  /\ HarnessIdle
  /\ WGIdle

NextKernel1 == \E g \in Grid : RunWorkgroup1(g)

NextTiled ==
  \/ \E g \in Grid : BeginWorkgroup(g)
  \/ LoadTile
  \/ ComputeTile
  \/ StoreResults

SpecKernel1 == InitKernelRun(1) /\ [][NextKernel1]_vars

SpecKernel2 == InitKernelRun(2) /\ [][NextTiled]_vars

SpecKernel3 == InitKernelRun(3) /\ [][NextTiled]_vars

\* The dispatch is over: every workgroup of the grid has run
DispatchDone == wgDone = Grid /\ cur = NoGroup

\* The sum over k in 0..K-1 of A[i][k] * B[j][k]
RefSum(i, j) == [k1 \in 1..K |-> <<i * K + (k1 - 1), j * K + (k1 - 1)>>]

\* Two sums have the same terms, each as many times
SameSum(s, t) ==
  \A x \in {s[i] : i \in 1..Len(s)} \cup {t[i] : i \in 1..Len(t)} :
    Cardinality({i \in 1..Len(s) : s[i] = x})
      = Cardinality({i \in 1..Len(t) : t[i] = x})

\* Every element of C holds its inner product
OutputCorrect ==
  \A i \in 0..(M - 1), j \in 0..(N - 1) : SameSum(C[i * N + j], RefSum(i, j))

\* The workgroup that owns element <<i, j>> of C under a square tiling
OwnerGroup(side, i, j) == <<i \div side, j \div side>>

----------------------------------------------------------------------------
(* The lanes of one workgroup of variant 2 or 3, interleaved: SpecWG       *)

\* Bound: the workgroup has WGT x WGT lanes (tileSize = WGT for variant 2,
\* BM = BK = BN = WGT and TM = 1 for variant 3)
WGT == 2

\* The template parameters of the interleaved workgroup
WGp == [tileSize |-> WGT, BM |-> WGT, BK |-> WGT, BN |-> WGT, TM |-> 1]

\* The workgroup observed
WGg == <<0, 0>>

\* The <<M, K, N>> the workgroup is run for: one trip of the loop over K
\* with columns past K, with and without lanes outside M x N, or two full
\* trips
WGDims == {<<m, k, n>> : m \in {1, WGT}, k \in {1, 2 * WGT}, n \in {WGT}}

LaneSet == IF version = 2 THEN Lanes2(WGT) ELSE Lanes3(WGp)

LaneTiles == IF version = 2 THEN V2NumTiles(WGT) ELSE V3NumChunks(WGp)

\* The lane's store into As / tileA for tile t: <<cell, index>>
LaneStoreA(l, t) ==
  IF version = 2 THEN V2StoreAs(WGT, WGg, t, l) ELSE V3StoreTileA(WGp, WGg, t, l)

\* The lane's store into Bs / tileB for tile t: <<cell, index>>
LaneStoreB(l, t) ==
  IF version = 2 THEN V2StoreBs(WGT, WGg, t, l) ELSE V3StoreTileB(WGp, WGg, t, l)

\* The products of the lane's inner loop over tiles holding ta and tb
LaneProductsOn(l, ta, tb) ==
  IF version = 2 THEN V2Products(WGT, l, ta, tb)
  ELSE V3Products(WGp, WGg, l, 0, ta, tb)

\* What every lane's load of trip t puts into As / tileA
LoadedTileA(t) ==
  LET stores == {LaneStoreA(l, t) : l \in LaneSet} IN
  Scatter(scratchA, {<<w[1], Resolve(SizeOf("A"), w[2])>> : w \in stores})

\* What every lane's load of trip t puts into Bs / tileB
LoadedTileB(t) ==
  LET stores == {LaneStoreB(l, t) : l \in LaneSet} IN
  Scatter(scratchB, {<<w[1], Resolve(SizeOf("B"), w[2])>> : w \in stores})

\* The inner loop reading A and B for the trip instead of the shared tiles
LaneProducts_Direct(l) ==
  LaneProductsOn(l, LoadedTileA(laneTile[l]), LoadedTileB(laneTile[l]))

\* The products of the lane's inner loop over the tiles as they are
LaneProducts(l) == LaneProductsOn(l, scratchA, scratchB)

\* The lane's inner loop is about to sum something else than the products
\* of its trip: a cell it reads is not yet written, or already replaced
Misreads(l) ==
  Sum(LaneProductsOn(l, scratchA, scratchB))
    # Sum(LaneProductsOn(l, LoadedTileA(laneTile[l]),
                         LoadedTileB(laneTile[l])))

\* The lane's stores to C
LaneStores(l) ==
  IF version = 2 THEN V2Stores(WGT, WGg, l, laneTotal[l])
  ELSE V3Stores(WGp, WGg, l, [r \in {0} |-> laneTotal[l]])

\* Mutant of AfterLoad: no workgroupBarrier after the loads
AfterLoad_NoBarrier == "compute"

\* What follows the two loads of a trip: the first workgroupBarrier
AfterLoad == "bar1"

\* Lane l has made all its stores to the shared tiles for tile t
FinishedWrites(l, t) ==
  \/ laneTile[l] > t
  \/ lanePc[l] \in {"store", "done"}
  \/ laneTile[l] = t /\ lanePc[l] \in {"bar1", "compute", "bar2"}

\* Lane l has made all its reads of the shared tiles for tile t
FinishedReads(l, t) ==
  \/ laneTile[l] > t
  \/ lanePc[l] \in {"store", "done"}
  \/ laneTile[l] = t /\ lanePc[l] = "bar2"

\* A store to a shared tile for tile t while a lane may still read tile t-1
EarlyWrite(t, buf) ==
  IF t > 0 /\ \E l2 \in LaneSet : ~FinishedReads(l2, t - 1)
  THEN {<<"early-write", buf>>} ELSE {}

\* A read of the shared tiles for tile t while a lane may still store to them
EarlyRead(t) ==
  IF \E l2 \in LaneSet : ~FinishedWrites(l2, t)
  THEN {<<"early-read", "AB">>} ELSE {}

\* How far a lane has come: trips of the loop first, then the place in the
\* trip
PcRank(p) ==
  CASE p = "load" -> 0
    [] p = "bar1" -> 1
    [] p = "compute" -> 2
    [] p = "bar2" -> 3
    [] OTHER -> 4

Progress(l) ==
  IF lanePc[l] \in {"store", "done"}
  THEN (LaneTiles + 1) * 5 + (IF lanePc[l] = "done" THEN 1 ELSE 0)
  ELSE laneTile[l] * 5 + PcRank(lanePc[l])

\* The lanes of the workgroup run as two subgroups, by local index
Subgroup(l) == IF 2 * l < Cardinality(LaneSet) THEN 0 ELSE 1

\* A subgroup is level when its lanes stand at the same place
Level(sg) ==
  \A l \in LaneSet, l2 \in LaneSet :
    (Subgroup(l) = sg /\ Subgroup(l2) = sg) => Progress(l) = Progress(l2)

\* With a barrier left out, the interleavings followed are those of the two
\* subgroups: the lanes of a subgroup advance in lockstep (each takes the
\* step in turn, lowest index first, before the other subgroup moves on).
\* With both barriers in place every interleaving of the lanes is followed.
Turn(l) ==
  \/ removed = "none"
  \/ /\ \A l2 \in LaneSet :
          Subgroup(l2) = Subgroup(l) =>
            \/ Progress(l2) > Progress(l)
            \/ Progress(l2) = Progress(l) /\ l2 >= l
     /\ Level(1 - Subgroup(l))

\* Where a lane goes after its loads: to the first workgroupBarrier, or
\* straight on if that call is left out
NextAfterLoad == IF removed = "first" THEN "compute" ELSE AfterLoad

WGUnused ==
  UNCHANGED <<inputVars, harnessVars, timingVars, renderVars, oobMode,
              wgDone, flags, cur, phase, tile, As, Bs, acc, writers, removed>>

\* As[..] = A[..]; Bs[..] = B[..] (tileA, tileB in variant 3); then
\* workgroupBarrier()
LaneLoad(l) ==
  /\ lanePc[l] = "load"
  /\ Turn(l)
  /\ LET w == LaneStoreA(l, laneTile[l]) IN
       scratchA' = [scratchA EXCEPT ![w[1]] = Resolve(SizeOf("A"), w[2])]
  /\ LET w == LaneStoreB(l, laneTile[l]) IN
       scratchB' = [scratchB EXCEPT ![w[1]] = Resolve(SizeOf("B"), w[2])]
  /\ hazards' = hazards \cup EarlyWrite(laneTile[l], "A")
                        \cup EarlyWrite(laneTile[l], "B")
  /\ lanePc' = [lanePc EXCEPT ![l] = NextAfterLoad]
  /\ arrived' = [arrived EXCEPT ![l] =
                   IF NextAfterLoad = "bar1" THEN @ + 1 ELSE @]
  /\ UNCHANGED <<laneTile, laneTotal, C, misread>>
  /\ WGUnused

\* The inner loop over the tiles; then workgroupBarrier(), or, if that call
\* is left out, straight on to the next trip of the loop over K
LaneCompute(l) ==
  /\ lanePc[l] = "compute"
  /\ Turn(l)
  /\ laneTotal' = [laneTotal EXCEPT ![l] = @ \o Sum(LaneProducts(l))]
  /\ hazards' = hazards \cup EarlyRead(laneTile[l])
  /\ misread' = IF Misreads(l) THEN misread \cup {l} ELSE misread
  /\ IF removed = "second"
     THEN /\ laneTile' = [laneTile EXCEPT ![l] = @ + 1]
          /\ lanePc' = [lanePc EXCEPT ![l] =
                          IF laneTile[l] + 1 < LaneTiles THEN "load"
                          ELSE "store"]
          /\ arrived' = arrived
     ELSE /\ laneTile' = laneTile
          /\ lanePc' = [lanePc EXCEPT ![l] = "bar2"]
          /\ arrived' = [arrived EXCEPT ![l] = @ + 1]
  /\ UNCHANGED <<scratchA, scratchB, C>>
  /\ WGUnused

\* workgroupBarrier(): once every lane of the workgroup waits at the
\* barrier, all of them go on: after the first barrier to the inner loop,
\* after the second to the next trip of the loop over K (tile = tile + 1 /
\* bkIdx += BK and the loop test) or, past the last, to the store
BarrierRelease ==
  /\ \E b \in {"bar1", "bar2"} :
       /\ \A l \in LaneSet : lanePc[l] = b
       /\ lanePc' = [l \in LaneSet |->
                       IF b = "bar1" THEN "compute"
                       ELSE IF laneTile[l] + 1 < LaneTiles THEN "load"
                       ELSE "store"]
       /\ laneTile' = [l \in LaneSet |->
                         IF b = "bar1" THEN laneTile[l] ELSE laneTile[l] + 1]
  /\ UNCHANGED <<arrived, scratchA, scratchB, laneTotal, hazards, C,
                 misread>>
  /\ WGUnused

\* The lane returns or stores its result to C
LaneStore(l) ==
  /\ lanePc[l] = "store"
  /\ Turn(l)
  /\ C' \in StoreOutcomes(C, LaneStores(l))
  /\ lanePc' = [lanePc EXCEPT ![l] = "done"]
  /\ UNCHANGED <<laneTile, arrived, scratchA, scratchB, laneTotal, hazards,
                 misread>>
  /\ WGUnused

\* The element of C a lane of workgroup WGg computes: <<row, column>>
LaneTarget(l) ==
  IF version = 2 THEN <<V2row(WGT, WGg, l), V2col(WGT, WGg, l)>>
  ELSE <<V3targetRow(WGp, WGg, l, 0), V3targetCol(WGp, WGg, l)>>

LaneInRange(l) == LaneTarget(l)[1] < M /\ LaneTarget(l)[2] < N

\* A guard on the output element placed at the top of main: a lane outside
\* M x N returns at once
EntryPc_GuardFirst(l) ==
  IF ~LaneInRange(l) THEN "done"
  ELSE IF LaneTiles > 0 THEN "load" ELSE "store"

\* Where a lane starts: at the loop over K, whatever its output element
EntryPc(l) == IF LaneTiles > 0 THEN "load" ELSE "store"

\* The lanes of workgroup WGg enter main
InitLanes ==
  /\ version \in {2, 3}
  /\ \E d \in WGDims : M = d[1] /\ K = d[2] /\ N = d[3]
  /\ oobMode \in OobModes
  /\ lanePc = [l \in LaneSet |-> EntryPc(l)]
  /\ laneTile = [l \in LaneSet |-> 0]
  /\ arrived = [l \in LaneSet |-> 0]
  /\ scratchA = [c \in 0..(WGT * WGT - 1) |-> Zero]
  /\ scratchB = [c \in 0..(WGT * WGT - 1) |-> Zero]
  /\ laneTotal = [l \in LaneSet |-> <<>>]
  /\ hazards = {}
  /\ misread = {}
  /\ writers = <<>>
  /\ C = [i \in 0..(M * N - 1) |-> <<>>]
  /\ wgDone = {}
  /\ flags = {}
  /\ cur = NoGroup
  /\ phase = "idle"
  /\ tile = 0
  /\ As = <<>>
  /\ Bs = <<>>
  /\ acc = <<>>
  /\ HarnessIdle

NextWG ==
  \/ \E l \in LaneSet : LaneLoad(l)
  \/ \E l \in LaneSet : LaneCompute(l)
  \/ BarrierRelease
  \/ \E l \in LaneSet : LaneStore(l)

\* The kernel as it is
InitWG == InitLanes /\ removed = "none"

SpecWG == InitWG /\ [][NextWG]_vars

\* The lanes are scheduled fairly: a lane that can take a step, or a barrier
\* that can open, is not held back forever. No branch around a barrier reads
\* a loaded value, so one resolution of the out-of-range reads is followed
InitWGFair == InitWG /\ oobMode = "skip"

SpecWGFair == InitWGFair /\ [][NextWG]_vars /\ WF_vars(NextWG)

\* The kernel with one of its two workgroupBarrier calls left out
\* and run on dimensions the tiles divide, with two trips of the loop over K
InitWGRemoved ==
  /\ InitLanes
  /\ K = 2 * WGT
  /\ removed \in {"first", "second"}

SpecWGRemoved == InitWGRemoved /\ [][NextWG]_vars

\* Every lane of the workgroup is through
AllDone == \A l \in LaneSet : lanePc[l] = "done"


----------------------------------------------------------------------------
(* Claims about the kernels *)

\* C3: variant 1 as launched by runTest (16 x 16 workgroups over
\* cdiv({M,N,1},{16,16,1})): no lane with row >= M or col >= N reads A or B
\* or writes C, no access is out of bounds, and once the workgroup of
\* C[i][j] has run, C[i][j] is the sum over k of A[i][k] * B[j][k] (before
\* that it is untouched).  Checked under SpecKernel1.
C3_Variant1Correct ==
  /\ flags = {}
  /\ \A i \in 0..(M - 1), j \in 0..(N - 1) :
       IF OwnerGroup(16, i, j) \in wgDone
       THEN SameSum(C[i * N + j], RefSum(i, j))
       ELSE C[i * N + j] = <<>>

\* C3 witness: a dispatch of several workgroups, the last of them partly
\* outside C, is over and C is complete.
C3_Witness ==
  /\ version = 1
  /\ M = tileSize + 1 /\ N = 2 /\ K = MaxK1
  /\ DispatchDone
  /\ Cardinality(Grid) = 2
  /\ OutputCorrect

\* C4 (the claim as stated): variant 2 as generated by createMatmul2 and
\* launched by runTest, for M, K, N not all multiples of the tile size: no
\* load or store is out of bounds or has a column index >= K, and when the
\* dispatch is over every C[i][j] is the sum over k of A[i][k] * B[j][k].
\* Checked under SpecKernel2.
C4_Variant2Boundary ==
  (M % tileSize # 0 \/ K % tileSize # 0 \/ N % tileSize # 0) =>
    /\ flags = {}
    /\ DispatchDone => OutputCorrect

\* C4, the result alone and whatever the build does out of bounds: with a
\* second row of A and of B to wrap into, C is wrong in every mode.
C4_ResultAlone ==
  (M = tileSize + 1 /\ K = 1 /\ N = tileSize + 1 /\ DispatchDone)
    => OutputCorrect

\* C5 (the claim as stated): variant 3 as launched by runTest (BM = BK =
\* BN = 4, TM = 1): no lane whose target row >= M or target column >= N
\* changes an element of C, and when the dispatch is over every C[i][j] is
\* the sum over k of A[i][k] * B[j][k].  Checked under SpecKernel3.
C5_Variant3Masked ==
  /\ <<"stray", "C">> \notin flags
  /\ DispatchDone => OutputCorrect

\* C5, the result alone, whatever the build does with an access out of
\* bounds: once the dispatch is done every C[i][j] is the inner product.
\* (It is not: the unmasked store of a lane past column N lands on the next
\* row's element.)
C5_ResultAlone ==
  (M = 2 /\ K = BK /\ N = 1 /\ DispatchDone) => OutputCorrect

\* C6: in variants 2 and 3, under every interleaving of the lanes of a
\* workgroup, no lane reads the shared tiles for tile t before every lane
\* has made its stores for tile t, and no lane stores for tile t+1 before
\* every lane has made its reads of tile t; so whenever a lane is about to
\* run its inner loop, every cell holds what its lane loaded for that tile.
\* Checked under SpecWG.
C6_BarrierOrder ==
  /\ hazards = {}
  /\ \A l \in LaneSet, l2 \in LaneSet :
       /\ lanePc[l] = "compute" =>
            /\ FinishedWrites(l2, laneTile[l])
            /\ scratchA[LaneStoreA(l2, laneTile[l])[1]]
                 = Resolve(SizeOf("A"), LaneStoreA(l2, laneTile[l])[2])
            /\ scratchB[LaneStoreB(l2, laneTile[l])[1]]
                 = Resolve(SizeOf("B"), LaneStoreB(l2, laneTile[l])[2])
       /\ (lanePc[l] = "bar1" /\ laneTile[l] > 0) =>
            FinishedReads(l2, laneTile[l] - 1)

\* C6 witness: in the second trip of the loop one lane has already read the
\* shared tiles and waits at the second barrier while another is about to
\* read them.
C6_Witness ==
  \E l \in LaneSet, l2 \in LaneSet :
    /\ laneTile[l] = 1 /\ lanePc[l] = "compute"
    /\ laneTile[l2] = 1 /\ lanePc[l2] = "bar2"

----------------------------------------------------------------------------
(* Calls of createMatmul1..3 on their own templates: SpecGenerate *)

\* Bounds: M, K, N in 1..MaxGenDim, at most MaxCalls calls
MaxGenDim == 2
MaxCalls == 2

\* The workgroup Shapes tried: the default argument and runTest's for
\* variant 1
GenShapes == {<<256, 1, 1>>, <<16, 16, 1>>}

\* The ShaderCode createMatmul<version> returns for the current M, K, N
ShaderCodeFor(workgroupSize, precision) ==
  CASE version = 1 -> createMatmul1(M, K, N, workgroupSize, precision)
    [] version = 2 -> createMatmul2(M, K, N, workgroupSize, precision)
    [] OTHER -> createMatmul3(M, K, N, BM, BK, BN, TM, workgroupSize,
                              precision)

\* One call of createMatmul<version>(template, M, K, N, .., workgroupSize,
\* precision)
Generate ==
  /\ Len(generated) < MaxCalls
  /\ \E workgroupSize \in GenShapes, precision \in NumTypes :
       LET sc == ShaderCodeFor(workgroupSize, precision) IN
       generated' = Append(generated,
                           [fn |-> version,
                            args |-> <<M, K, N, workgroupSize, precision>>,
                            code |-> codeString(sc),
                            workgroupSize |-> sc.workgroupSize])
  /\ UNCHANGED <<inputVars, harnessVars, timingVars, kernelVars, wgVars>>

InitGenerate ==
  /\ version \in 1..3
  /\ M \in 1..MaxGenDim
  /\ K \in 1..MaxGenDim
  /\ N \in 1..MaxGenDim
  /\ HarnessIdle
  /\ KernelIdle
  /\ WGIdle

NextGenerate == Generate

SpecGenerate == InitGenerate /\ [][NextGenerate]_vars

\* C11: for each of createMatmul1, createMatmul2 and createMatmul3 applied
\* to its own template, every placeholder of the template has a value in the
\* replacement list: the source text returned holds no placeholder.
\* Checked under SpecGenerate.
C11_NoUnresolvedPlaceholder ==
  \A i \in DOMAIN generated : Unresolved(generated[i].code) = {}

\* C11 witness: createMatmul2 has rendered its template, which names
\* {{tileSize}}, and the text holds the tile size in its place.
C11_Witness ==
  \E i \in DOMAIN generated :
    /\ generated[i].fn = 2
    /\ Key("tileSize") \in {kShaderMatmul2[j] : j \in DOMAIN kShaderMatmul2}
    /\ toStringSize(isqrt(generated[i].args[4][1]))
         \in {generated[i].code[j] : j \in DOMAIN generated[i].code}

C12_OtherCases(v, r) ==
  /\ version = v /\ removed = r
  /\ AllDone
  /\ K % WGT = 0
  /\ \E l \in misread :
       /\ LaneInRange(l)
       /\ ~SameSum(C[LaneTarget(l)[1] * N + LaneTarget(l)[2]],
                   RefSum(LaneTarget(l)[1], LaneTarget(l)[2]))

\* C15: when the tile size (16 in runTest) divides M, K and N, variant 2 as
\* generated, without masking, makes no access out of range, each lane runs
\* exactly K / tileSize trips of the loop over the tiles, and when the
\* dispatch is over every C[i][j] is the sum over k of A[i][k] * B[j][k].
\* Checked under SpecKernel2.
C15_UnmaskedFastPath ==
  (M % tileSize = 0 /\ K % tileSize = 0 /\ N % tileSize = 0) =>
    /\ flags = {}
    /\ phase = "store" => tile = K \div tileSize
    /\ phase \in {"load", "compute"} => tile < K \div tileSize
    /\ DispatchDone => OutputCorrect

\* C15 witness: a dispatch with two trips per lane (K = 2 * tileSize) is
\* over and C is right.
C15_Witness ==
  /\ M % tileSize = 0 /\ N % tileSize = 0
  /\ K = 2 * tileSize
  /\ DispatchDone
  /\ OutputCorrect

\* The lanes whose load of trip t stores to cell c of As / tileA, of Bs /
\* tileB
WritersOfA(t, c) == {l \in LaneSet : LaneStoreA(l, t)[1] = c}
WritersOfB(t, c) == {l \in LaneSet : LaneStoreB(l, t)[1] = c}

\* C16: in each trip of the loop over K of variant 2 (T * T lanes) and of
\* variant 3 (BM * BN / TM lanes), once the first barrier is passed every
\* cell of both shared tiles has been written in that trip by exactly one
\* lane of the workgroup, and no lane stores to an index outside the tile.
\* Checked under SpecWG.
C16_CooperativeLoad ==
  \A t \in {laneTile[l] : l \in {x \in LaneSet : lanePc[x] = "compute"}} :
    /\ \A c \in DOMAIN scratchA :
         /\ Cardinality(WritersOfA(t, c)) = 1
         /\ \A w \in WritersOfA(t, c) :
              /\ FinishedWrites(w, t)
              /\ scratchA[c] = Resolve(SizeOf("A"), LaneStoreA(w, t)[2])
    /\ \A c \in DOMAIN scratchB :
         /\ Cardinality(WritersOfB(t, c)) = 1
         /\ \A w \in WritersOfB(t, c) :
              /\ FinishedWrites(w, t)
              /\ scratchB[c] = Resolve(SizeOf("B"), LaneStoreB(w, t)[2])
    /\ \A l \in LaneSet :
         /\ LaneStoreA(l, t)[1] \in DOMAIN scratchA
         /\ LaneStoreB(l, t)[1] \in DOMAIN scratchB

\* C16 witness: the first barrier of the second trip has been passed in a
\* workgroup of variant 3, and a lane is in its inner loop.
C16_Witness ==
  /\ version = 3
  /\ \E l \in LaneSet : lanePc[l] = "compute" /\ laneTile[l] = 1
  /\ \A c \in DOMAIN scratchA : Cardinality(WritersOfA(1, c)) = 1

\* The workgroupBarrier calls a lane makes in all: two per trip of the loop
\* over K
BarrierCalls == 2 * LaneTiles

\* C17: in variants 2 and 3 every lane of a workgroup, the lanes whose
\* output element is outside M x N included, makes the same 2 * ceil(K / T)
\* (variant 3: 2 * ceil(K / BK)) workgroupBarrier calls, none returns or
\* stores before its last, no lane waits at a barrier forever and the
\* workgroup finishes.  Checked under SpecWGFair.
C17_BarrierUniformity ==
  /\ [](\A l \in LaneSet :
          /\ arrived[l] <= BarrierCalls
          /\ lanePc[l] \in {"store", "done"} => arrived[l] = BarrierCalls
          /\ lanePc[l] \in {"bar1", "bar2"} =>
               \A l2 \in LaneSet : lanePc[l2] \notin {"store", "done"})
  /\ <>AllDone

\* C17 witness: a workgroup with lanes outside M x N is through, each of its
\* lanes having made its barrier calls.
C17_Witness ==
  /\ AllDone
  /\ \E l \in LaneSet : ~LaneInRange(l)
  /\ \A l \in LaneSet : arrived[l] = BarrierCalls /\ arrived[l] > 0

----------------------------------------------------------------------------
(* Write exclusivity *)

\* C18: within one dispatch no two distinct lanes, of the same or of
\* different workgroups, store to the same index of C
C18_WriteExclusivity ==
  \A i \in DOMAIN writers : Cardinality(writers[i]) <= 1

\* The same for the variants that return before the store when the lane's
\* element lies outside M x N
C18_GuardedVariants ==
  version \in {1, 2} => \A i \in DOMAIN writers : Cardinality(writers[i]) <= 1

\* Every workgroup of the dispatch has stored
C18_AllStored == wgDone = Grid /\ \E i \in DOMAIN writers : writers[i] # {}

====
